---- MODULE Spec2Model ----
(***************************************************************************)
(* Order reconciliation between a Magento channel and Tryton sales         *)
(* (sale.py): find-or-create import of remote orders, the confirmation     *)
(* gate, copy, and the status / tracking synchronisation.                  *)
(*                                                                         *)
(* The store is the ambient transaction's view of the tables sale.sale,    *)
(* channel.exception, sale.payment and stock.shipment.out.  A sale's id is *)
(* its index in `sales`.  Every handler is one action; a fault that leaves *)
(* a handler leaves the writes the handler made before it (the handlers    *)
(* have no clean-up code).                                                 *)
(***************************************************************************)
EXTENDS Integers, Sequences, FiniteSets, TLC

VARIABLES
    sales,      \* sale.sale rows, by id
    excs,       \* channel.exception rows
    payments,   \* sale.payment rows
    shipments,  \* stock.shipment.out rows
    last,       \* the last handler call: its name, arguments, result, outcome
    callers     \* concurrent importers (used by SpecRace only)

vars == <<sales, excs, payments, shipments, last, callers>>

\* ------------------------------------------------------------------ bounds
MaxSales == 2
MaxShipments == 2

\* ------------------------------------------------------------- null values
NULL == -1          \* SQL NULL / Python None of an integer field
None == "None"      \* Python None of a text or reference field
NoSale == 0         \* a handler returning no sale (None)

\* ----------------------------------------------------------------- helpers
Range(s) == {s[i] : i \in DOMAIN s}

Max(S) == CHOOSE x \in S : \A y \in S : y <= x

\* int(order_data['order_id']): the decimal strings the remote platform sends
OrderIds == {"1", "01", "2"}

IntOf(s) ==
    CASE s = "1" -> 1
      [] s = "01" -> 1
      [] s = "2" -> 2
      [] s = "0" -> 0

\* Decimal(text), as a number of cents
DecimalOf(s) ==
    CASE s = "0" -> 0
      [] s = "0.00" -> 0
      [] s = "5.00" -> 500
      [] s = "10.00" -> 1000
      [] s = "8.5" -> 850

\* truth value of a Python text or number: empty text, None and 0 are false
Truthy(v) == v \notin {None, ""}

Channels == {1, 2}

IncrementIds == {"100", "200"}

RemoteStates == {"new", "processing", "canceled"}

\* channel.get_tryton_action(state): the channel's workflow mapping
GetTrytonAction(ch, state) ==
    CASE state = "new" ->
            [action |-> "process_manually",
             invoice_method |-> "order", shipment_method |-> "order"]
      [] state = "processing" ->
            [action |-> "process_automatically",
             invoice_method |-> "order", shipment_method |-> "order"]
      [] OTHER ->
            [action |-> "do_not_import",
             invoice_method |-> "manual", shipment_method |-> "manual"]

\* channel.get_product(sku): the product, or the xmlrpclib.Fault it raises
GetProduct(sku) ==
    CASE sku = "ok" -> [fault |-> 0, product |-> "prod"]
      [] sku = "gone" -> [fault |-> 101, product |-> None]
      [] OTHER -> [fault |-> 100, product |-> None]

\* MagentoPaymentGateway.find_using_magento_data({'name': method})
FindGateway(method) == IF method = "cc" THEN "gateway" ELSE None

\* order_data['shipping_method'].split('_', 1): the parts of the text
SplitCarrier(method) ==
    CASE method = "flatrate_flatrate" -> <<"flatrate", "flatrate">>
      [] method = "ups_ground" -> <<"ups", "ground">>
      [] OTHER -> <<method>>

\* MagentoCarrier.find_using_magento_data(carrier_data): the mapped carrier
FindCarrier(code) == IF code = "flatrate" THEN "carrier" ELSE None

\* ------------------------------------------------------------ sale lookups
\* cls.search(domain): the matching ids; sales[0] is the first in the
\* model's order (sale.sale is ordered by id descending)
SearchMagentoId(ss, mid, ch) ==
    {i \in DOMAIN ss : ss[i].magento_id = mid /\ ss[i].channel = ch}

First(ids) == IF ids = {} THEN NoSale ELSE Max(ids)

\* the lookup comparing the integer field with the payload's text: no match
FindUsingMagentoDataByText(ss, ch, order_data) ==
    First({i \in DOMAIN ss : ss[i].channel = ch /\ order_data.order_id = "id"})

FindUsingMagentoData(ss, ch, order_data) ==
    First(SearchMagentoId(ss, IntOf(order_data.order_id), ch))

FindUsingMagentoId(ss, ch, order_id) ==
    First(SearchMagentoId(ss, order_id, ch))

\* the lookup by increment id over the sales of every channel
FindUsingMagentoIncrementIdInAnyChannel(ss, ch, order_increment_id) ==
    First({i \in DOMAIN ss : ss[i].channel_identifier = order_increment_id})

FindUsingMagentoIncrementId(ss, ch, order_increment_id) ==
    First({i \in DOMAIN ss : ss[i].channel_identifier = order_increment_id
                             /\ ss[i].channel = ch})

\* has_channel_exception: a channel exception is recorded against the sale
HasChannelException(es, id) == \E i \in DOMAIN es : es[i].origin = id

\* the constraint left out of __setup__
NoUniqueViolation(ss, row) == FALSE

\* UNIQUE(magento_id, channel): a row violates it when another row has the
\* same non-null magento_id and the same channel
UniqueViolation(ss, row) ==
    /\ row.magento_id # NULL
    /\ \E i \in DOMAIN ss :
          ss[i].magento_id = row.magento_id /\ ss[i].channel = row.channel

\* ------------------------------------------------------------ Order Mapper

\* the mapper taking the shipment method from the workflow mapping alone
GetSaleWithMappedShipment(ch, order_data) ==
    [magento_id |-> IntOf(order_data.order_id),
     channel |-> ch,
     channel_identifier |-> order_data.increment_id,
     state |-> "draft",
     invoice_address |->
        IF Truthy(order_data.billing_address)
        THEN order_data.billing_address ELSE None,
     shipment_address |->
        IF Truthy(order_data.shipping_address)
        THEN order_data.shipping_address ELSE None,
     invoice_method |-> GetTrytonAction(ch, order_data.state).invoice_method,
     shipment_method |->
        GetTrytonAction(ch, order_data.state).shipment_method,
     carrier |-> None,
     lines |-> << >>]

GetSaleUsingMagentoData(ch, order_data) ==
    LET party_invoice_address ==
            IF Truthy(order_data.billing_address)
            THEN order_data.billing_address ELSE None
        party_shipping_address ==
            IF Truthy(order_data.shipping_address)
            THEN order_data.shipping_address ELSE None
        tryton_action == GetTrytonAction(ch, order_data.state)
        shipment_method ==
            IF party_shipping_address = None
            THEN "manual" ELSE tryton_action.shipment_method
    IN  [magento_id |-> IntOf(order_data.order_id),
         channel |-> ch,
         channel_identifier |-> order_data.increment_id,
         state |-> "draft",
         invoice_address |-> party_invoice_address,
         shipment_address |->
            IF party_shipping_address # None
            THEN party_shipping_address ELSE party_invoice_address,
         invoice_method |-> tryton_action.invoice_method,
         shipment_method |-> shipment_method,
         carrier |-> None,
         lines |-> << >>]

\* the collaborators get_sale_using_magento_data calls, in order
MapperCalls(order_data) ==
    <<"currency", "party">>
    \o (IF Truthy(order_data.billing_address) THEN <<"address">> ELSE << >>)
    \o (IF Truthy(order_data.shipping_address) THEN <<"address">> ELSE << >>)

\* ---------------------------------------------------------- Line Assembler

\* a line made for every item, child items included
GetSaleLineOfAnyItem(item) ==
    [line |-> <<[kind |-> "item", magento_id |-> item.item_id,
                 description |-> item.name, product |-> None,
                 taxes |-> 0]>>,
     exc |-> FALSE, fault |-> "", calls |-> << >>]

\* get_sale_line_using_magento_data: the line (or no line), whether a
\* channel exception was recorded, and the fault that leaves the method
GetSaleLineUsingMagentoData(item) ==
    IF item.parent_item_id # NULL
    THEN [line |-> << >>, exc |-> FALSE, fault |-> "", calls |-> << >>]
    ELSE LET got == GetProduct(item.sku)
             product == got.product
         IN  IF got.fault \notin {0, 101}
             THEN [line |-> << >>, exc |-> FALSE, fault |-> "Fault",
                   calls |-> <<"product">>]
             ELSE IF ~Truthy(item.name) /\ product = None
             THEN [line |-> << >>, exc |-> got.fault = 101,
                   fault |-> "AttributeError", calls |-> <<"product">>]
             ELSE [line |-> <<[kind |-> "item",
                               magento_id |-> item.item_id,
                               description |->
                                  IF Truthy(item.name) THEN item.name
                                  ELSE "product name",
                               product |-> product,
                               taxes |->
                                  IF Truthy(item.tax_percent)
                                     /\ DecimalOf(item.tax_percent) # 0
                                  THEN DecimalOf(item.tax_percent)
                                  ELSE 0]>>,
                   exc |-> got.fault = 101, fault |-> "",
                   calls |-> <<"product">>
                       \o (IF Truthy(item.tax_percent)
                              /\ DecimalOf(item.tax_percent) # 0
                           THEN <<"taxes">> ELSE << >>)]

\* the loop over order_data['items']: lines appended, channel exceptions
\* recorded, and the fault that ended the loop early
\* one pass of the loop: the line of item r appended to what was collected
Collect(acc, r) ==
    [lines |-> acc.lines \o r.line,
     nexc |-> acc.nexc + (IF r.exc THEN 1 ELSE 0),
     fault |-> r.fault,
     calls |-> acc.calls \o r.calls]

RECURSIVE ItemLoop(_, _)
ItemLoop(items, acc) ==
    IF items = << >> \/ acc.fault # ""
    THEN acc
    ELSE IF Head(items).bundle_option /\ Head(items).parent_item_id # NULL
    THEN ItemLoop(Tail(items), acc)
    ELSE ItemLoop(Tail(items),
                  Collect(acc, GetSaleLineUsingMagentoData(Head(items))))

GetShippingLineDataUsingMagentoData(order_data) ==
    LET parts == SplitCarrier(order_data.shipping_method)
        magento_carrier == FindCarrier(parts[1])
    IN  IF Len(parts) # 2
        THEN [line |-> << >>, carrier |-> None, fault |-> "ValueError"]
        ELSE [line |-> <<[kind |-> "shipping", magento_id |-> NULL,
                          description |-> "Magento Shipping",
                          product |->
                             IF magento_carrier # None
                             THEN "carrier product" ELSE None,
                          taxes |-> 0]>>,
              carrier |-> magento_carrier, fault |-> ""]

GetDiscountLineDataUsingMagentoData(order_data) ==
    [kind |-> "discount", magento_id |-> NULL,
     description |-> "Magento Discount", product |-> None, taxes |-> 0]

\* add_lines_using_magento_data: the lines appended to the sale, the number
\* of channel exceptions recorded, the carrier set on the sale, the fault
\* the shipping line when the order has a shipping method
ShippingLine(order_data) ==
    IF Truthy(order_data.shipping_method)
    THEN GetShippingLineDataUsingMagentoData(order_data)
    ELSE [line |-> << >>, carrier |-> None, fault |-> ""]

\* the discount line when the order has a discount
DiscountLine(order_data) ==
    IF DecimalOf(order_data.discount_amount) # 0
    THEN <<GetDiscountLineDataUsingMagentoData(order_data)>>
    ELSE << >>

\* the discount line appended before the shipping line
LinesAfterLoopDiscountFirst(order_data, loop, ship) ==
    IF loop.fault # ""
    THEN [lines |-> loop.lines, nexc |-> loop.nexc, carrier |-> None,
          fault |-> loop.fault, calls |-> loop.calls]
    ELSE IF ship.fault # ""
    THEN [lines |-> loop.lines, nexc |-> loop.nexc, carrier |-> None,
          fault |-> ship.fault, calls |-> loop.calls \o <<"bom">>]
    ELSE [lines |-> loop.lines \o DiscountLine(order_data) \o ship.line,
          nexc |-> loop.nexc, carrier |-> ship.carrier, fault |-> "",
          calls |-> loop.calls \o <<"bom">>]

\* the lines after the loop over the items: the shipping line, then the
\* discount line
LinesAfterLoop(order_data, loop, ship) ==
    IF loop.fault # ""
    THEN [lines |-> loop.lines, nexc |-> loop.nexc, carrier |-> None,
          fault |-> loop.fault, calls |-> loop.calls]
    ELSE IF ship.fault # ""
    THEN [lines |-> loop.lines, nexc |-> loop.nexc, carrier |-> None,
          fault |-> ship.fault, calls |-> loop.calls \o <<"bom">>]
    ELSE [lines |-> loop.lines \o ship.line \o DiscountLine(order_data),
          nexc |-> loop.nexc, carrier |-> ship.carrier, fault |-> "",
          calls |-> loop.calls \o <<"bom">>
              \o (IF Truthy(order_data.shipping_method)
                  THEN <<"carrier">> ELSE << >>)]

AddLinesUsingMagentoData(order_data) ==
    LinesAfterLoop(order_data,
                   ItemLoop(order_data.items,
                            [lines |-> << >>, nexc |-> 0, fault |-> "",
                             calls |-> << >>]),
                   ShippingLine(order_data))

\* ------------------------------------------------------- confirmation gate
\* the gate testing only the last sale of the batch
ConfirmLastOnly(ss, es, batch) ==
    IF HasChannelException(es, Max(batch))
    THEN [sales |-> ss, raised |-> TRUE]
    ELSE [sales |-> [i \in DOMAIN ss |->
                        IF i \in batch /\ ss[i].state = "quotation"
                        THEN [ss[i] EXCEPT !.state = "confirmed"]
                        ELSE ss[i]],
          raised |-> FALSE]

\* Sale.confirm(sales): raises 'magento_exception' for the first sale with a
\* channel exception; otherwise the super call moves the sales that are in
\* quotation to confirmed
Confirm(ss, es, batch) ==
    IF \E id \in batch : HasChannelException(es, id)
    THEN [sales |-> ss, raised |-> TRUE]
    ELSE [sales |-> [i \in DOMAIN ss |->
                        IF i \in batch /\ ss[i].state = "quotation"
                        THEN [ss[i] EXCEPT !.state = "confirmed"]
                        ELSE ss[i]],
          raised |-> FALSE]

\* sale.process_to_channel_state(state): quote, which a business rule
\* refuses for a sale lacking an invoice or a shipment address; then confirm
\* through the gate above; then process when the mapped action is automatic
ProcessToChannelState(ss, es, id, action) ==
    IF ss[id].invoice_address = None \/ ss[id].shipment_address = None
    THEN [sales |-> ss, raised |-> TRUE]
    ELSE LET quoted == [ss EXCEPT ![id].state = "quotation"]
             confirmed == Confirm(quoted, es, {id})
         IN  IF confirmed.raised
             THEN [sales |-> quoted, raised |-> TRUE]
             ELSE IF action = "process_automatically"
             THEN [sales |-> [confirmed.sales EXCEPT
                                 ![id].state = "processing"],
                   raised |-> FALSE]
             ELSE [sales |-> confirmed.sales, raised |-> FALSE]

\* ------------------------------------------------ Reconciliation Controller
\* sale.create_payment_using_magento_data(payment_data): the payment rows
\* created and the fault that leaves the method
CreatePaymentUsingMagentoData(sale, id, payment_data) ==
    LET magento_gateway == FindGateway(payment_data.method)
    IN  IF magento_gateway = None
        THEN [rows |-> << >>, fault |-> ""]
        ELSE IF ~Truthy(payment_data.amount_paid)
        THEN [rows |-> << >>, fault |-> ""]
        ELSE IF sale.invoice_address = None
        THEN [rows |-> << >>, fault |-> "AttributeError"]
        ELSE [rows |-> <<[sale |-> id, gateway |-> magento_gateway,
                          amount |-> DecimalOf(payment_data.amount_paid)]>>,
              fault |-> ""]

\* what a handler leaves: the tables, the sale it returns (or NoSale), "ok"
\* or the error that leaves it, the collaborators it called, in order, and
\* whether the state transition was refused with a UserError
Outcome(ss, es, ps, res, out, calls, rejected) ==
    [sales |-> ss, excs |-> es, payments |-> ps, res |-> res, out |-> out,
     calls |-> calls, rejected |-> rejected]

Result(ss, es, ps, res, out, calls) ==
    Outcome(ss, es, ps, res, out, calls, FALSE)

\* the skip test comparing against a misspelt action
DoNotImportMisspelt(state_data) == state_data.action = "do_not_import "

\* the skip test of create_using_magento_data
DoNotImport(state_data) == state_data.action = "do_not_import"

ProductException(id, ch) == [origin |-> id, channel |-> ch, log |-> "product"]

\* the origin formatted without the sale's id
TransitionExceptionNoOrigin(id, ch) ==
    [origin |-> NoSale, channel |-> ch, log |-> "transition"]

TransitionException(id, ch) ==
    [origin |-> id, channel |-> ch, log |-> "transition"]

\* the channel exceptions after the lines were added: one per product that
\* the remote side no longer has
ProductExceptions(es, n, id, ch) ==
    es \o [k \in 1..n |-> ProductException(id, ch)]

\* the end of create_using_magento_data: the transition was made (done) and
\* a UserError it raised is recorded as a channel exception
ProcessSale(es, ps, id, calls, done) ==
    IF done.raised
    THEN Outcome(done.sales,
                 Append(es, TransitionException(id, done.sales[id].channel)),
                 ps, id, "ok", calls, TRUE)
    ELSE Result(done.sales, es, ps, id, "ok", calls)

\* the payment step (paid) and what follows it
CreatePayment(ss, es, ps, id, action, calls, paid) ==
    IF paid.fault # ""
    THEN Result(ss, es, ps, NoSale, paid.fault, calls)
    ELSE ProcessSale(es, ps \o paid.rows, id, calls \o <<"process">>,
                     ProcessToChannelState(ss, es, id, action))

\* the second save, of the sale with its lines (full), and what follows it
SaveLines(ss, es, ps, action, calls, payment_data, full) ==
    CreatePayment(Append(ss, full), es, ps, Len(ss) + 1, action, calls,
                  CreatePaymentUsingMagentoData(full, Len(ss) + 1,
                                                payment_data))

\* the lines step saving the lines appended before a fault
AddLinesSavingPartial(ss, es, ps, ch, order_data, action, draft, calls, added) ==
    IF added.fault # ""
    THEN Result(Append(ss, [draft EXCEPT !.lines = added.lines]),
                ProductExceptions(es, added.nexc, Len(ss) + 1, ch), ps,
                NoSale, added.fault, calls \o added.calls)
    ELSE SaveLines(ss, ProductExceptions(es, added.nexc, Len(ss) + 1, ch),
                   ps, action,
                   calls \o added.calls \o <<"save", "gateway">>,
                   order_data.payment,
                   [draft EXCEPT !.lines = added.lines,
                                 !.carrier = added.carrier])

\* the lines step (added) on the saved header (draft) and what follows it
AddLines(ss, es, ps, ch, order_data, action, draft, calls, added) ==
    IF added.fault # ""
    THEN Result(Append(ss, draft),
                ProductExceptions(es, added.nexc, Len(ss) + 1, ch), ps,
                NoSale, added.fault, calls \o added.calls)
    ELSE SaveLines(ss, ProductExceptions(es, added.nexc, Len(ss) + 1, ch),
                   ps, action,
                   calls \o added.calls \o <<"save", "gateway">>,
                   order_data.payment,
                   [draft EXCEPT !.lines = added.lines,
                                 !.carrier = added.carrier])

\* the first save, of the mapped header (draft), and what follows it
SaveDraft(ss, es, ps, ch, order_data, action, draft, calls) ==
    IF UniqueViolation(ss, draft)
    THEN Result(ss, es, ps, NoSale, "IntegrityError", calls)
    ELSE AddLines(ss, es, ps, ch, order_data, action, draft, calls,
                  AddLinesUsingMagentoData(order_data))

\* Sale.create_using_magento_data(order_data) in channel ch
CreateUsingMagentoData(ss, es, ps, ch, order_data) ==
    IF DoNotImport(GetTrytonAction(ch, order_data.state))
    THEN Result(ss, es, ps, NoSale, "ok", << >>)
    ELSE SaveDraft(ss, es, ps, ch, order_data,
                   GetTrytonAction(ch, order_data.state).action,
                   GetSaleUsingMagentoData(ch, order_data),
                   MapperCalls(order_data) \o <<"save">>)

\* Sale.find_or_create_using_magento_data(order_data) in channel ch
FindOrCreateUsingMagentoData(ss, es, ps, ch, order_data) ==
    LET sale == FindUsingMagentoData(ss, ch, order_data)
    IN  IF sale # NoSale
        THEN Result(ss, es, ps, sale, "ok", << >>)
        ELSE CreateUsingMagentoData(ss, es, ps, ch, order_data)

\* order_api.info(increment_id) failing with a fault
Unreachable == [fault |-> 100]

\* Sale.find_or_create_using_magento_increment_id(order_increment_id) in
\* channel ch; `fetched` is what order_api.info returns when it is called
AfterOrderInfo(made) == [made EXCEPT !.calls = <<"order.info">> \o made.calls]

FindOrCreateUsingMagentoIncrementId(ss, es, ps, ch, increment_id, fetched) ==
    IF FindUsingMagentoIncrementId(ss, ch, increment_id) # NoSale
    THEN Result(ss, es, ps,
                FindUsingMagentoIncrementId(ss, ch, increment_id), "ok",
                << >>)
    ELSE IF fetched = Unreachable
    THEN Result(ss, es, ps, NoSale, "Fault", <<"order.info">>)
    ELSE AfterOrderInfo(CreateUsingMagentoData(ss, es, ps, ch, fetched))

\* the caller's defaults passed on as given
CopyDefaultAsGiven(default) == default

\* Sale.copy(sales, default): one new row per sale, the caller's defaults
\* overridden so that both remote identifiers are empty
CopyDefault(default) ==
    [k \in DOMAIN default \cup {"magento_id", "channel_identifier"} |->
        CASE k = "magento_id" -> NULL
          [] k = "channel_identifier" -> None
          [] OTHER -> default[k]]

CopyRow(row, default) ==
    [f \in DOMAIN row |->
        IF f \in DOMAIN default THEN default[f]
        ELSE IF f = "state" THEN "draft"
        ELSE row[f]]

RECURSIVE CopyRows(_, _, _)
CopyRows(ss, ids, default) ==
    IF ids = << >>
    THEN << >>
    ELSE <<CopyRow(ss[Head(ids)], default)>>
         \o CopyRows(ss, Tail(ids), default)

Copy(ss, ids, default) == ss \o CopyRows(ss, ids, CopyDefault(default))

\* ------------------------------------------------------------------ inputs
ItemTop ==
    [item_id |-> 1, parent_item_id |-> NULL, bundle_option |-> FALSE,
     sku |-> "ok", name |-> "item", tax_percent |-> None]

ItemGone ==
    [item_id |-> 2, parent_item_id |-> NULL, bundle_option |-> TRUE,
     sku |-> "gone", name |-> "item", tax_percent |-> "8.5"]

ItemChild ==
    [item_id |-> 3, parent_item_id |-> 2, bundle_option |-> TRUE,
     sku |-> "ok", name |-> "item", tax_percent |-> None]

ItemFault ==
    [item_id |-> 4, parent_item_id |-> NULL, bundle_option |-> FALSE,
     sku |-> "broken", name |-> "item", tax_percent |-> None]

\* payload parts: an order that imports cleanly, one with a product missing
\* on the remote side, one whose product lookup faults, one without addresses
Plain ==
    [items |-> <<ItemTop>>, shipping_method |-> None,
     discount_amount |-> "0.00",
     payment |-> [method |-> "check", amount_paid |-> "0"],
     billing_address |-> "a1", shipping_address |-> None]

Missing ==
    [items |-> <<ItemGone, ItemChild>>,
     shipping_method |-> "flatrate_flatrate", discount_amount |-> "5.00",
     payment |-> [method |-> "cc", amount_paid |-> "10.00"],
     billing_address |-> "a1", shipping_address |-> "a2"]

Faulty ==
    [items |-> <<ItemGone, ItemFault>>, shipping_method |-> None,
     discount_amount |-> "0.00",
     payment |-> [method |-> "cc", amount_paid |-> "0"],
     billing_address |-> "a1", shipping_address |-> "a2"]

Guest ==
    [items |-> <<ItemTop>>, shipping_method |-> None,
     discount_amount |-> "0.00",
     payment |-> [method |-> "check", amount_paid |-> "10.00"],
     billing_address |-> None, shipping_address |-> None]

\* the remote states each kind of payload is sent in
Variants ==
    {<<"new", Plain>>, <<"processing", Plain>>, <<"canceled", Plain>>,
     <<"processing", Missing>>, <<"new", Faulty>>, <<"new", Guest>>}

Order(order_id, increment_id, state, c) ==
    [order_id |-> order_id, increment_id |-> increment_id, state |-> state,
     items |-> c.items, shipping_method |-> c.shipping_method,
     discount_amount |-> c.discount_amount, payment |-> c.payment,
     billing_address |-> c.billing_address,
     shipping_address |-> c.shipping_address]

\* the increment id the remote side gives the order with this id
IncrementIdOf(order_id) == IF IntOf(order_id) = 1 THEN "100" ELSE "200"

\* remote order payloads
Orders ==
    {Order(o, IncrementIdOf(o), v[1], v[2]) :
        o \in OrderIds, v \in Variants}

\* caller-supplied defaults of copy
CopyDefaults ==
    {[k \in {} |-> NULL],
     [magento_id |-> 2, channel_identifier |-> "200"]}

NoCallers == << >>

\* a handler call: its name, the sale it returns (or NoSale), "ok" or the
\* error that leaves it, and the collaborators it called, in order
Call(op, r) ==
    [op |-> op, res |-> r.res, out |-> r.out, calls |-> r.calls,
     rejected |-> r.rejected]

\* ----------------------------------------------------------------- actions
Init ==
    /\ sales = << >>
    /\ excs = << >>
    /\ payments = << >>
    /\ shipments = << >>
    /\ last = [op |-> "init", res |-> NoSale, out |-> "ok", calls |-> << >>,
               rejected |-> FALSE]
    /\ callers = NoCallers

Apply(op, r) ==
    /\ Len(r.sales) <= MaxSales
    /\ sales' = r.sales
    /\ excs' = r.excs
    /\ payments' = r.payments
    /\ last' = Call(op, r)
    /\ UNCHANGED <<shipments, callers>>

DoFindOrCreateUsingMagentoData ==
    \E ch \in Channels, order_data \in Orders :
        Apply("find_or_create_using_magento_data",
              FindOrCreateUsingMagentoData(sales, excs, payments, ch,
                                           order_data))

DoCreateUsingMagentoData ==
    \E ch \in Channels, order_data \in Orders :
        Apply("create_using_magento_data",
              CreateUsingMagentoData(sales, excs, payments, ch, order_data))

DoFindOrCreateUsingMagentoIncrementId ==
    \E ch \in Channels, order_increment_id \in IncrementIds :
        \E fetched \in {od \in Orders :
                            od.increment_id = order_increment_id}
                        \cup {Unreachable} :
            Apply("find_or_create_using_magento_increment_id",
                  FindOrCreateUsingMagentoIncrementId(sales, excs, payments,
                      ch, order_increment_id, fetched))

DoCopy ==
    \E id \in DOMAIN sales, default \in CopyDefaults :
        Apply("copy",
              Result(Copy(sales, <<id>>, default), excs, payments,
                     Len(sales) + 1, "ok", << >>))

\* the user quoting a draft sale, the step before confirm
DoQuote ==
    \E id \in DOMAIN sales :
        /\ sales[id].state = "draft"
        /\ Apply("quote",
                 Result([sales EXCEPT ![id].state = "quotation"], excs,
                        payments, id, "ok", << >>))

DoConfirm ==
    \E batch \in SUBSET (DOMAIN sales) :
        /\ batch # {}
        /\ LET r == Confirm(sales, excs, batch)
           IN  Apply("confirm",
                     Result(r.sales, excs, payments, NoSale,
                            IF r.raised THEN "magento_exception" ELSE "ok",
                            << >>))

Next ==
    \/ DoFindOrCreateUsingMagentoData
    \/ DoCreateUsingMagentoData
    \/ DoFindOrCreateUsingMagentoIncrementId
    \/ DoCopy
    \/ DoQuote
    \/ DoConfirm

Spec == Init /\ [][Next]_vars

\* ------------------------------------------------------------- Status Sync
\* what a remote call does: returns, raises xmlrpclib.Fault with a code, or
\* fails in the transport with another error
RemoteOk == [kind |-> "ok", code |-> 0]

RemoteOutcomes ==
    {RemoteOk, [kind |-> "Fault", code |-> 103],
     [kind |-> "Fault", code |-> 100], [kind |-> "error", code |-> 0]}

RemoteCall(api, arg) == [api |-> api, arg |-> arg]

\* what the status handlers leave: the shipments, "ok" or the error that
\* leaves the handler, the remote calls issued, the states each shipment
\* went through, and what the last remote call issued did
SyncOutcome(sh, out, calls, trace, raised) ==
    [shipments |-> sh, out |-> out, calls |-> calls, trace |-> trace,
     raised |-> raised]

\* the handler without its except clause: every failure leaves it
ExportFaultHandlerRaising(remote) == remote.kind

\* the except clause of export_order_status_to_magento: what leaves the
\* handler when the remote call raised `remote`
ExportFaultHandler(remote) ==
    IF remote.kind = "Fault" THEN "ok" ELSE "error"

\* the handler without its magento_id test
ExportOrderStatusToMagentoUnguarded(ss, sh, id, remote) ==
    IF ss[id].state = "cancel"
    THEN SyncOutcome(sh,
            IF remote.kind = "ok" THEN "ok" ELSE ExportFaultHandler(remote),
            <<RemoteCall("order.connect", "magento_url"),
              RemoteCall("order.cancel", ss[id].channel_identifier)>>,
            << >>, remote)
    ELSE IF ss[id].state = "done"
    THEN SyncOutcome(sh,
            IF remote.kind = "ok" THEN "ok" ELSE ExportFaultHandler(remote),
            <<RemoteCall("order.connect", "magento_url"),
              RemoteCall("order.addcomment", ss[id].channel_identifier)>>,
            << >>, remote)
    ELSE SyncOutcome(sh, "ok",
                     <<RemoteCall("order.connect", "magento_url")>>,
                     << >>, RemoteOk)

\* sale.export_order_status_to_magento() for sale id; `remote` is the
\* outcome of the cancel or addcomment call when one is issued
ExportOrderStatusToMagento(ss, sh, id, remote) ==
    LET self == ss[id]
        increment_id == self.channel_identifier
        connect == <<RemoteCall("order.connect", "magento_url")>>
    IN  IF self.magento_id \in {NULL, 0}
        THEN SyncOutcome(sh, "ok", << >>, << >>, RemoteOk)
        ELSE IF self.state = "cancel"
        THEN SyncOutcome(sh,
                IF remote.kind = "ok" THEN "ok"
                ELSE ExportFaultHandler(remote),
                connect \o <<RemoteCall("order.cancel", increment_id)>>,
                << >>, remote)
        ELSE IF self.state = "done"
        THEN SyncOutcome(sh,
                IF remote.kind = "ok" THEN "ok"
                ELSE ExportFaultHandler(remote),
                connect \o <<RemoteCall("order.addcomment", increment_id)>>,
                << >>, remote)
        ELSE SyncOutcome(sh, "ok", connect, << >>, RemoteOk)

\* the loop packing a waiting shipment without assigning it
ShipmentStepsSkipping ==
    <<[from |-> "draft", to |-> "waiting", button |-> "wait"],
      [from |-> "waiting", to |-> "packed", button |-> "pack"],
      [from |-> "assigned", to |-> "packed", button |-> "pack"],
      [from |-> "packed", to |-> "done", button |-> "done"]>>

\* the four tests of the shipment loop, in order; a transition that does
\* not take effect (stock that cannot be assigned) leaves the state
ShipmentSteps ==
    <<[from |-> "draft", to |-> "waiting", button |-> "wait"],
      [from |-> "waiting", to |-> "assigned", button |-> "assign"],
      [from |-> "assigned", to |-> "packed", button |-> "pack"],
      [from |-> "packed", to |-> "done", button |-> "done"]>>

\* the states a shipment goes through from `state`, the loop body run from
\* test k on; `stuck` are the buttons that do not take effect
RECURSIVE Advance(_, _, _, _)
Advance(steps, k, state, stuck) ==
    IF k > Len(steps)
    THEN <<state>>
    ELSE IF state = steps[k].from /\ steps[k].button \notin stuck
    THEN <<state>> \o Advance(steps, k + 1, steps[k].to, stuck)
    ELSE Advance(steps, k + 1, state, stuck)

\* the shipments processed whatever the remote status is
UpdateOrderStatusFromMagentoAnyStatus(ss, sh, id, order_data, fetched, remote, stuck) ==
    LET calls == IF order_data = None
                 THEN <<RemoteCall("order.connect", "magento_url"),
                        RemoteCall("order.info", ss[id].channel_identifier)>>
                 ELSE << >>
        trace == [i \in DOMAIN sh |->
                     IF sh[i].sale = id
                     THEN Advance(ShipmentSteps, 1, sh[i].state, stuck[i])
                     ELSE <<sh[i].state>>]
    IN  IF order_data = None /\ remote.kind # "ok"
        THEN SyncOutcome(sh, remote.kind, calls,
                         [i \in DOMAIN sh |-> << >>], remote)
        ELSE SyncOutcome(
                [i \in DOMAIN sh |->
                    [sh[i] EXCEPT !.state = trace[i][Len(trace[i])]]],
                "ok", calls, trace, RemoteOk)

\* sale.update_order_status_from_magento(order_data) for sale id;
\* order_data is the payload's status, or None to have it fetched, when
\* `fetched` is the status the remote platform reports and `remote` the
\* outcome of the fetch; stuck[i] are the buttons without effect on
\* shipment i
UpdateOrderStatusFromMagento(ss, sh, id, order_data, fetched, remote, stuck) ==
    LET status == IF order_data = None THEN fetched ELSE order_data
        calls == IF order_data = None
                 THEN <<RemoteCall("order.connect", "magento_url"),
                        RemoteCall("order.info", ss[id].channel_identifier)>>
                 ELSE << >>
        trace == [i \in DOMAIN sh |->
                     IF sh[i].sale = id /\ status = "complete"
                     THEN Advance(ShipmentSteps, 1, sh[i].state, stuck[i])
                     ELSE <<sh[i].state>>]
    IN  IF order_data = None /\ remote.kind # "ok"
        THEN SyncOutcome(sh, remote.kind, calls,
                         [i \in DOMAIN sh |-> << >>], remote)
        ELSE SyncOutcome(
                [i \in DOMAIN sh |->
                    [sh[i] EXCEPT !.state = trace[i][Len(trace[i])]]],
                "ok", calls, trace, RemoteOk)

\* MagentoCarrier.search for (channel, carrier) and the unpacking of its
\* result: the mapped code, or "custom" when there is not exactly one
CarrierMapping(carrier) ==
    IF carrier = "carrier" THEN "flatrate" ELSE "custom"

\* the flag written before the remote call
ExportTrackingInfoToMagentoEager(sh, i, remote) ==
    LET self == sh[i]
        calls == <<RemoteCall("shipment.connect", "magento_url"),
                   RemoteCall("shipment.addtrack", self.tracking_number)>>
        written == [sh EXCEPT ![i].is_tracking_exported_to_magento = TRUE]
    IN  IF ~Truthy(self.tracking_number) \/ ~Truthy(self.carrier)
        THEN SyncOutcome(sh, "AssertionError", << >>, << >>, RemoteOk)
        ELSE IF remote.kind # "ok"
        THEN SyncOutcome(written, remote.kind, calls, << >>, remote)
        ELSE SyncOutcome(written, "ok", calls, << >>, RemoteOk)

\* shipment.export_tracking_info_to_magento() for shipment i; `remote` is
\* the outcome of the addtrack call
ExportTrackingInfoToMagento(sh, i, remote) ==
    LET self == sh[i]
        calls == <<RemoteCall("shipment.connect", "magento_url"),
                   RemoteCall("shipment.addtrack",
                       <<self.magento_increment_id,
                         CarrierMapping(self.carrier),
                         self.tracking_number>>)>>
    IN  IF ~Truthy(self.tracking_number) \/ ~Truthy(self.carrier)
        THEN SyncOutcome(sh, "AssertionError", << >>, << >>, RemoteOk)
        ELSE IF remote.kind # "ok"
        THEN SyncOutcome(sh, remote.kind, calls, << >>, remote)
        ELSE SyncOutcome(
                [sh EXCEPT ![i].is_tracking_exported_to_magento = TRUE],
                "ok", calls, << >>, RemoteOk)

\* ----------------------------------------------- status sync: the actions
ShipmentStates ==
    {"draft", "waiting", "assigned", "packed", "done", "cancel"}

SaleStates == {"draft", "processing", "done", "cancel"}

RemoteStatuses == {"complete", "processing"}

Shipment(sale, state, tracking_number, carrier) ==
    [sale |-> sale, state |-> state, tracking_number |-> tracking_number,
     carrier |-> carrier, is_tracking_exported_to_magento |-> FALSE,
     magento_increment_id |-> "300"]

SeqsUpTo(S, n) == UNION {[1..k -> S] : k \in 0..n}

\* an imported sale in any state, next to a copy of it
SyncSales ==
    {<<[GetSaleUsingMagentoData(1, Order("1", "100", "new", Plain))
            EXCEPT !.state = st],
       CopyRow(GetSaleUsingMagentoData(1, Order("1", "100", "new", Plain)),
               CopyDefault(<< >>))>> :
        st \in SaleStates}

ApplySync(op, res, r) ==
    /\ shipments' = r.shipments
    /\ last' = [op |-> op, res |-> res, out |-> r.out, calls |-> r.calls,
                trace |-> r.trace, raised |-> r.raised]
    /\ UNCHANGED <<sales, excs, payments, callers>>

InitStatus ==
    /\ sales \in SyncSales
    /\ excs = << >>
    /\ payments = << >>
    /\ shipments \in SeqsUpTo({Shipment(id, st, None, None) :
                                  id \in {1, 2}, st \in ShipmentStates},
                              MaxShipments)
    /\ last = [op |-> "init", res |-> NoSale, out |-> "ok", calls |-> << >>,
               trace |-> << >>, raised |-> RemoteOk]
    /\ callers = NoCallers

DoExportOrderStatusToMagento ==
    \E id \in DOMAIN sales, remote \in RemoteOutcomes :
        LET r == ExportOrderStatusToMagento(sales, shipments, id, remote)
        IN  ApplySync("export_order_status_to_magento",
                      IF r.out = "ok" THEN id ELSE NoSale, r)

\* the buttons that may be without effect on each shipment
Stuck == [DOMAIN shipments -> {{}, {"assign"}}]

\* called with the payload already at hand
DoUpdateOrderStatusFromMagento ==
    \E id \in DOMAIN sales, order_data \in RemoteStatuses, stuck \in Stuck :
        ApplySync("update_order_status_from_magento", NoSale,
                  UpdateOrderStatusFromMagento(sales, shipments, id,
                      order_data, order_data, RemoteOk, stuck))

\* called without a payload: the order is fetched first
DoUpdateOrderStatusFromMagentoFetching ==
    \E id \in DOMAIN sales, fetched \in RemoteStatuses,
       remote \in RemoteOutcomes, stuck \in Stuck :
        ApplySync("update_order_status_from_magento", NoSale,
                  UpdateOrderStatusFromMagento(sales, shipments, id,
                      None, fetched, remote, stuck))

NextStatus ==
    \/ DoExportOrderStatusToMagento
    \/ DoUpdateOrderStatusFromMagento
    \/ DoUpdateOrderStatusFromMagentoFetching

SpecStatus == InitStatus /\ [][NextStatus]_vars

InitTracking ==
    /\ sales \in SyncSales
    /\ sales[1].state = "processing"
    /\ excs = << >>
    /\ payments = << >>
    /\ shipments \in SeqsUpTo({Shipment(1, "done", t, c) :
                                  t \in {None, "", "track"},
                                  c \in {None, "carrier", "other"}},
                              MaxShipments)
    /\ last = [op |-> "init", res |-> NoSale, out |-> "ok", calls |-> << >>,
               trace |-> << >>, raised |-> RemoteOk]
    /\ callers = NoCallers

DoExportTrackingInfoToMagento ==
    \E i \in DOMAIN shipments, remote \in RemoteOutcomes :
        LET r == ExportTrackingInfoToMagento(shipments, i, remote)
        IN  ApplySync("export_tracking_info_to_magento",
                      IF r.out = "ok" THEN i ELSE NoSale, r)

NextTracking == DoExportTrackingInfoToMagento

SpecTracking == InitTracking /\ [][NextTracking]_vars

\* ------------------------------------ two callers importing concurrently
\* each caller runs find_or_create_using_magento_data in a transaction of
\* its own: the lookup, then (when it found nothing) the create, whose
\* first save is where the constraint is checked against the rows
\* committed by then
Callers == {1, 2}

Caller(ch, order_data) ==
    [pc |-> "start", ch |-> ch, order |-> order_data, found |-> NoSale,
     res |-> NoSale, out |-> "running"]

InitRace ==
    /\ sales = << >>
    /\ excs = << >>
    /\ payments = << >>
    /\ shipments = << >>
    /\ last = [op |-> "init", res |-> NoSale, out |-> "ok", calls |-> << >>,
               rejected |-> FALSE]
    /\ \E ch1, ch2 \in Channels, od1, od2 \in Orders :
          /\ od1.increment_id = od2.increment_id
          /\ od1.state = od2.state
          /\ od1.items = od2.items
          /\ od1.billing_address = od2.billing_address
          /\ callers = <<Caller(ch1, od1), Caller(ch2, od2)>>

RaceFind(p) ==
    /\ callers[p].pc = "start"
    /\ callers' = [callers EXCEPT
          ![p].pc = "searched",
          ![p].found = FindUsingMagentoData(sales, callers[p].ch,
                                            callers[p].order)]
    /\ UNCHANGED <<sales, excs, payments, shipments, last>>

RaceReturnFound(p) ==
    /\ callers[p].pc = "searched"
    /\ callers[p].found # NoSale
    /\ callers' = [callers EXCEPT ![p].pc = "done",
                                  ![p].res = callers[p].found,
                                  ![p].out = "ok"]
    /\ UNCHANGED <<sales, excs, payments, shipments, last>>

RaceApply(p, r) ==
    /\ sales' = r.sales
    /\ excs' = r.excs
    /\ payments' = r.payments
    /\ last' = Call("find_or_create_using_magento_data", r)
    /\ callers' = [callers EXCEPT ![p].pc = "done",
                                  ![p].res = r.res,
                                  ![p].out = r.out]
    /\ UNCHANGED shipments

RaceCreate(p) ==
    /\ callers[p].pc = "searched"
    /\ callers[p].found = NoSale
    /\ RaceApply(p, CreateUsingMagentoData(sales, excs, payments,
                                           callers[p].ch, callers[p].order))

NextRace ==
    \E p \in Callers : RaceFind(p) \/ RaceReturnFound(p) \/ RaceCreate(p)

SpecRace == InitRace /\ [][NextRace]_vars

\* ------------- the line and payment steps of create_using_magento_data
\* the steps that follow the first save, taken one at a time on one sale,
\* over payloads whose items, shipping method, discount and payment vary
MaxItems == 2

ItemNameless ==
    [item_id |-> 5, parent_item_id |-> NULL, bundle_option |-> FALSE,
     sku |-> "gone", name |-> "", tax_percent |-> None]

ItemUnnamed ==
    [item_id |-> 6, parent_item_id |-> NULL, bundle_option |-> FALSE,
     sku |-> "ok", name |-> "", tax_percent |-> "0.00"]

ItemPart ==
    [item_id |-> 7, parent_item_id |-> 1, bundle_option |-> FALSE,
     sku |-> "ok", name |-> "item", tax_percent |-> None]

ItemChildGone ==
    [item_id |-> 8, parent_item_id |-> 2, bundle_option |-> TRUE,
     sku |-> "gone", name |-> "", tax_percent |-> "8.5"]

Items ==
    {ItemTop, ItemGone, ItemChild, ItemFault, ItemNameless, ItemUnnamed,
     ItemPart, ItemChildGone}

ShippingMethods == {None, "flatrate_flatrate", "ups_ground", "pickup"}

DiscountAmounts == {"0.00", "5.00"}

PaymentMethods == {"cc", "check"}

AmountsPaid == {None, "0", "10.00"}

BillingAddresses == {None, "a1"}

\* the payloads of the steps
StepOrders ==
    {Order("1", "100", "new",
           [items |-> items, shipping_method |-> sm, discount_amount |-> da,
            payment |-> [method |-> pm, amount_paid |-> ap],
            billing_address |-> ba, shipping_address |-> None]) :
        items \in SeqsUpTo(Items, MaxItems), sm \in ShippingMethods,
        da \in DiscountAmounts, pm \in PaymentMethods, ap \in AmountsPaid,
        ba \in BillingAddresses}

\* a step of the handler: its name, the payload, "ok" or the error that
\* leaves it, the collaborators it called and the lines the sale holds in
\* memory
Step(op, order_data, out, calls, lines) ==
    [op |-> op, order_data |-> order_data, out |-> out, calls |-> calls,
     lines |-> lines]

\* sale = cls.get_sale_using_magento_data(order_data); sale.save()
InitSteps ==
    \E order_data \in StepOrders :
        /\ sales = <<GetSaleUsingMagentoData(1, order_data)>>
        /\ excs = << >>
        /\ payments = << >>
        /\ shipments = << >>
        /\ last = Step("save", order_data, "ok",
                       MapperCalls(order_data) \o <<"save">>, << >>)
        /\ callers = NoCallers

\* the lines step applied: the second save happens when no fault left it
AddLinesStep(added) ==
    /\ sales' = IF added.fault # "" THEN sales
                ELSE [sales EXCEPT ![1].lines = added.lines,
                                   ![1].carrier = added.carrier]
    /\ excs' = ProductExceptions(excs, added.nexc, 1, sales[1].channel)
    /\ last' = Step("add_lines_using_magento_data", last.order_data,
                    IF added.fault # "" THEN added.fault ELSE "ok",
                    added.calls, added.lines)
    /\ UNCHANGED <<payments, shipments, callers>>

\* sale.add_lines_using_magento_data(order_data); sale.save()
DoAddLinesUsingMagentoData ==
    /\ last.op = "save"
    /\ AddLinesStep(AddLinesUsingMagentoData(last.order_data))

\* the payment step applied
CreatePaymentStep(paid) ==
    /\ payments' = payments \o paid.rows
    /\ last' = Step("create_payment_using_magento_data", last.order_data,
                    IF paid.fault # "" THEN paid.fault ELSE "ok",
                    <<"gateway">>, last.lines)
    /\ UNCHANGED <<sales, excs, shipments, callers>>

\* sale.create_payment_using_magento_data(order_data['payment'])
DoCreatePaymentUsingMagentoData ==
    /\ last.op = "add_lines_using_magento_data"
    /\ last.out = "ok"
    /\ CreatePaymentStep(
          CreatePaymentUsingMagentoData(sales[1], 1,
                                        last.order_data.payment))

NextSteps ==
    \/ DoAddLinesUsingMagentoData
    \/ DoCreatePaymentUsingMagentoData

SpecSteps == InitSteps /\ [][NextSteps]_vars

\* --------------------- imports of payloads with any increment id
\* the payloads a caller may hand over: the increment id is whatever the
\* payload says, also one that another order id already came with
AnyOrders ==
    {Order(o, i, v[1], v[2]) :
        o \in OrderIds, i \in IncrementIds,
        v \in {<<"new", Plain>>, <<"processing", Missing>>,
               <<"new", Faulty>>}}

DoFindOrCreateUsingAnyOrder ==
    \E ch \in Channels, order_data \in AnyOrders :
        Apply("find_or_create_using_magento_data",
              FindOrCreateUsingMagentoData(sales, excs, payments, ch,
                                           order_data))

DoCreateUsingAnyOrder ==
    \E ch \in Channels, order_data \in AnyOrders :
        Apply("create_using_magento_data",
              CreateUsingMagentoData(sales, excs, payments, ch, order_data))

DoFindOrCreateUsingAnyIncrementId ==
    \E ch \in Channels, order_increment_id \in IncrementIds :
        \E fetched \in {od \in AnyOrders :
                            od.increment_id = order_increment_id}
                        \cup {Unreachable} :
            Apply("find_or_create_using_magento_increment_id",
                  FindOrCreateUsingMagentoIncrementId(sales, excs, payments,
                      ch, order_increment_id, fetched))

NextAnyOrder ==
    \/ DoFindOrCreateUsingAnyOrder
    \/ DoCreateUsingAnyOrder
    \/ DoFindOrCreateUsingAnyIncrementId
    \/ DoCopy

SpecAnyOrder == Init /\ [][NextAnyOrder]_vars

\* ------------------------------------------------------------------ claims
ImportOps ==
    {"find_or_create_using_magento_data", "create_using_magento_data",
     "find_or_create_using_magento_increment_id"}

ExceptionsOf(es, id) == {i \in DOMAIN es : es[i].origin = id}

\* C1: in every reachable state no two persisted sales have the same
\* non-empty magento_id and the same channel.
C1_UniquePerChannel ==
    \A i, j \in DOMAIN sales :
        (i # j /\ sales[i].magento_id # NULL
         /\ sales[i].magento_id = sales[j].magento_id)
            => sales[i].channel # sales[j].channel

\* a create of an identity already persisted was refused, while the same
\* remote id is persisted in both channels
C1_Witness ==
    /\ last.out = "IntegrityError"
    /\ Len(sales) = 2
    /\ sales[1].magento_id = sales[2].magento_id
    /\ sales[1].magento_id # NULL

\* C2: from every reachable store, a find-or-create that returns is
\* repeatable: the second call with the same payload in the same channel
\* returns the same sale and leaves sales (fields and lines), channel
\* exceptions and payments as the first call left them.
C2_IdempotentImport ==
    \A ch \in Channels, od \in Orders :
        LET first == FindOrCreateUsingMagentoData(sales, excs, payments,
                                                  ch, od)
            second == FindOrCreateUsingMagentoData(first.sales, first.excs,
                                                   first.payments, ch, od)
        IN  first.out = "ok" =>
                /\ second.out = "ok"
                /\ second.res = first.res
                /\ second.sales = first.sales
                /\ second.excs = first.excs
                /\ second.payments = first.payments

\* a find-or-create call found the sale that an earlier call created
C2_Witness ==
    /\ last.op = "find_or_create_using_magento_data"
    /\ last.out = "ok"
    /\ last.res # NoSale
    /\ last.calls = << >>
    /\ sales[last.res].lines # << >>

\* C3: when no sale exists for (order_id, current channel) and the mapped
\* action is do_not_import, find-or-create returns no sale, leaves sales,
\* channel exceptions and payments unchanged and calls no collaborator.
C3_SkipSemantics ==
    \A ch \in Channels, od \in Orders :
        LET r == FindOrCreateUsingMagentoData(sales, excs, payments, ch, od)
        IN  (FindUsingMagentoData(sales, ch, od) = NoSale
             /\ GetTrytonAction(ch, od.state).action = "do_not_import")
                => /\ r.res = NoSale
                   /\ r.out = "ok"
                   /\ r.sales = sales
                   /\ r.excs = excs
                   /\ r.payments = payments
                   /\ r.calls = << >>

\* a find-or-create call skipped its payload while sales were persisted
C3_Witness ==
    /\ last.op = "find_or_create_using_magento_data"
    /\ last.out = "ok"
    /\ last.res = NoSale
    /\ sales # << >>

C5_ConfirmationGate ==
    [][ /\ \A batch \in SUBSET (DOMAIN sales) :
              (\E id \in batch : HasChannelException(excs, id))
                  => Confirm(sales, excs, batch)
                        = [sales |-> sales, raised |-> TRUE]
        /\ (last'.op = "confirm" /\ last'.out = "magento_exception")
              => sales' = sales
        /\ \A id \in DOMAIN sales' :
              (/\ sales'[id].state \in {"confirmed", "processing"}
               /\ (id \in DOMAIN sales =>
                      sales[id].state \notin {"confirmed", "processing"}))
                  => ~HasChannelException(excs', id)
      ]_vars

\* a confirm was refused for a batch that also held a confirmable sale
C5_Witness ==
    /\ last.op = "confirm"
    /\ last.out = "magento_exception"
    /\ \E id \in DOMAIN sales :
          sales[id].state = "quotation" /\ ~HasChannelException(excs, id)
    /\ \E id \in DOMAIN sales :
          sales[id].state = "quotation" /\ HasChannelException(excs, id)

\* both callers looked up the same (order id, channel), both found nothing,
\* and the payload is one that is imported
Raced ==
    /\ \A p \in Callers : callers[p].pc = "done" /\ callers[p].found = NoSale
    /\ callers[1].ch = callers[2].ch
    /\ IntOf(callers[1].order.order_id) = IntOf(callers[2].order.order_id)
    /\ ~DoNotImport(GetTrytonAction(callers[1].ch, callers[1].order.state))

RacedSales ==
    SearchMagentoId(sales, IntOf(callers[1].order.order_id), callers[1].ch)

Exported(id) ==
    sales[id].magento_id \notin {NULL, 0} /\ sales[id].state \in {"cancel", "done"}

ApiCalls(calls) == {calls[k].api : k \in DOMAIN calls}

\* C7: a fault of the cancel or addcomment call with a code other than 103
\* leaves export_order_status_to_magento: the handler does not return.
C7_OtherFaultsPropagate ==
    (/\ last.op = "export_order_status_to_magento"
     /\ ApiCalls(last.calls) \cap {"order.cancel", "order.addcomment"} # {}
     /\ last.raised.kind = "Fault"
     /\ last.raised.code # 103)
        => last.out # "ok"

\* C8: for a sale with a magento_id, state cancel has the order cancelled
\* remotely by its increment id and state done has the completion comment
\* added; a fault 103 of that call is swallowed, the handler returning the
\* sale; and no call of the handler changes a local row.
C8_StatusPush ==
    [][ /\ \A id \in DOMAIN sales, remote \in RemoteOutcomes :
              LET r == ExportOrderStatusToMagento(sales, shipments, id,
                                                  remote)
                  pushed == {r.calls[k] : k \in DOMAIN r.calls}
                                \ {RemoteCall("order.connect", "magento_url")}
              IN  sales[id].magento_id \notin {NULL, 0} =>
                    /\ sales[id].state = "cancel" =>
                          pushed = {RemoteCall("order.cancel",
                                        sales[id].channel_identifier)}
                    /\ sales[id].state = "done" =>
                          pushed = {RemoteCall("order.addcomment",
                                        sales[id].channel_identifier)}
                    /\ (Exported(id) /\ remote = [kind |-> "Fault",
                                                  code |-> 103])
                          => r.out = "ok" /\ r.shipments = shipments
        /\ last'.op = "export_order_status_to_magento"
              => UNCHANGED <<sales, excs, payments, shipments>>
      ]_vars

\* the handler returned a cancelled sale after its remote call
C8_Witness ==
    /\ last.op = "export_order_status_to_magento"
    /\ last.out = "ok"
    /\ last.res # NoSale
    /\ sales[last.res].state = "cancel"
    /\ "order.cancel" \in ApiCalls(last.calls)

Chain == <<"draft", "waiting", "assigned", "packed", "done">>

Consecutive(a, b) ==
    \E k \in 1..(Len(Chain) - 1) : Chain[k] = a /\ Chain[k + 1] = b

\* C9: with remote status complete every shipment of the sale moves along
\* consecutive steps of draft, waiting, assigned, packed, done only; it
\* ends in done when it started in one of the first four and every
\* transition took effect; shipments of other sales do not move.
C9_SequentialCatchUp ==
    \A id \in DOMAIN sales, stuck \in Stuck :
        LET r == UpdateOrderStatusFromMagento(sales, shipments, id,
                     "complete", "complete", RemoteOk, stuck)
        IN  \A i \in DOMAIN shipments :
                LET t == r.trace[i]
                IN  /\ t[1] = shipments[i].state
                    /\ r.shipments[i].state = t[Len(t)]
                    /\ \A k \in 1..(Len(t) - 1) : Consecutive(t[k], t[k + 1])
                    /\ (shipments[i].sale = id /\ stuck[i] = {}
                        /\ shipments[i].state \in
                              {"draft", "waiting", "assigned", "packed"})
                          => r.shipments[i].state = "done"
                    /\ shipments[i].sale # id => r.shipments[i] = shipments[i]

\* a call took a draft shipment through every step to done
C9_Witness ==
    /\ last.op = "update_order_status_from_magento"
    /\ last.out = "ok"
    /\ \E i \in DOMAIN last.trace : last.trace[i] = Chain

\* C10: the tracking flag is written only after addtrack returned; without
\* a tracking number or a carrier the handler fails before any remote call;
\* a failing remote call leaves the handler after one attempt; in both
\* failures every shipment row is as before.
C10_TrackingExport ==
    \A i \in DOMAIN shipments, remote \in RemoteOutcomes :
        LET r == ExportTrackingInfoToMagento(shipments, i, remote)
            ready == Truthy(shipments[i].tracking_number)
                     /\ Truthy(shipments[i].carrier)
            tracks == {k \in DOMAIN r.calls :
                          r.calls[k].api = "shipment.addtrack"}
        IN  /\ ~ready => /\ r.out = "AssertionError"
                         /\ r.calls = << >>
                         /\ r.shipments = shipments
            /\ (ready /\ remote.kind # "ok")
                  => /\ r.out \notin {"ok", "AssertionError"}
                     /\ Cardinality(tracks) = 1
                     /\ r.shipments = shipments
            /\ r.shipments # shipments
                  => /\ remote.kind = "ok"
                     /\ r.out = "ok"
                     /\ tracks = {Len(r.calls)}
                     /\ r.shipments =
                           [shipments EXCEPT
                               ![i].is_tracking_exported_to_magento = TRUE]

\* an export succeeded for one shipment while another is not exported
C10_Witness ==
    /\ last.op = "export_tracking_info_to_magento"
    /\ last.out = "ok"
    /\ shipments[last.res].is_tracking_exported_to_magento
    /\ \E i \in DOMAIN shipments :
          ~shipments[i].is_tracking_exported_to_magento

\* batches of sales handed to copy
CopyBatches ==
    {<<i>> : i \in DOMAIN sales}
    \cup {<<i, j>> : i \in DOMAIN sales, j \in DOMAIN sales}

\* C11: copy of any batch of sales with any caller-supplied defaults appends
\* one sale per original, each with magento_id and channel_identifier empty
\* and with the original's lines; the originals are unchanged; and every
\* lookup by magento id or by increment id returns what it returned before
\* the copy, never a copy.
C11_CopyClearsIdentity ==
    \A ids \in CopyBatches, default \in CopyDefaults :
        LET r == Copy(sales, ids, default)
        IN  /\ Len(r) = Len(sales) + Len(ids)
            /\ SubSeq(r, 1, Len(sales)) = sales
            /\ \A k \in 1..Len(ids) :
                  /\ r[Len(sales) + k].magento_id = NULL
                  /\ r[Len(sales) + k].channel_identifier = None
                  /\ r[Len(sales) + k].lines = sales[ids[k]].lines
                  /\ r[Len(sales) + k].channel = sales[ids[k]].channel
            /\ \A ch \in Channels :
                  /\ \A mid \in {1, 2} :
                        FindUsingMagentoId(r, ch, mid)
                            = FindUsingMagentoId(sales, ch, mid)
                  /\ \A inc \in IncrementIds :
                        FindUsingMagentoIncrementId(r, ch, inc)
                            = FindUsingMagentoIncrementId(sales, ch, inc)

\* a sale imported with its lines was copied, and the copy holds neither
\* identifier while the lookup still returns the original
C11_Witness ==
    /\ last.op = "copy"
    /\ last.res = Len(sales)
    /\ sales[last.res].magento_id = NULL
    /\ sales[last.res].channel_identifier = None
    /\ \E i \in 1..(Len(sales) - 1) :
          /\ sales[i].magento_id # NULL
          /\ sales[i].channel_identifier # None
          /\ sales[i].lines # << >>
          /\ sales[i].lines = sales[last.res].lines
          /\ FindUsingMagentoId(sales, sales[i].channel, sales[i].magento_id)
                = i

\* the top-level items of a payload, by position
TopLevel(items) == {i \in DOMAIN items : items[i].parent_item_id = NULL}

\* the top-level items whose product resolution raises a fault of this kind
Faulting(items, codes) ==
    {i \in TopLevel(items) : GetProduct(items[i].sku).fault \in codes}

\* C12: after add_lines_using_magento_data, a resolution fault with a code
\* other than 101 has left the method as a fault; otherwise no item has
\* aborted the import, one channel exception is recorded for each top-level
\* item whose product was not found (101), and each of these items has its
\* line, with a null product, whatever its other fields are.
C12_MissingProductTolerated ==
    last.op = "add_lines_using_magento_data" =>
        IF Faulting(last.order_data.items, {100}) # {}
        THEN last.out = "Fault"
        ELSE /\ last.out \in {"ok", "ValueError"}
             /\ Cardinality(ExceptionsOf(excs, 1))
                   = Cardinality(Faulting(last.order_data.items, {101}))
             /\ \A i \in Faulting(last.order_data.items, {101}) :
                   \E k \in DOMAIN last.lines :
                      /\ last.lines[k].magento_id
                            = last.order_data.items[i].item_id
                      /\ last.lines[k].product = None

\* the errors that leave an import
ImportFaults == {"Fault", "AttributeError", "ValueError", "IntegrityError"}

\* C13 as stated: an import that a fault leaves persists no sale.
C13_NothingLeftAfterFault ==
    [][(last'.op \in ImportOps /\ last'.out \in ImportFaults)
          => sales' = sales]_vars

\* C13 as amended: when a fault leaves find_or_create_using_magento_data,
\* no sale is returned and no payment is created; the store holds at most
\* one new sale, which is the mapped header of the first save without any
\* line when the fault came from the line assembly, and the sale with all
\* its lines when it came later; a sale with part of its lines is never
\* persisted, and the channel exceptions recorded before the fault stay.
C13_FaultLeavesHeaderOnly ==
    \A ch \in Channels, od \in Orders :
        LET r == FindOrCreateUsingMagentoData(sales, excs, payments, ch, od)
            added == AddLinesUsingMagentoData(od)
            id == Len(sales) + 1
        IN  r.out # "ok" =>
                /\ r.out \in ImportFaults
                /\ r.res = NoSale
                /\ r.payments = payments
                /\ \/ r.sales = sales /\ r.excs = excs
                   \/ /\ r.sales
                            = Append(sales, GetSaleUsingMagentoData(ch, od))
                      /\ added.fault = r.out
                      /\ r.excs = ProductExceptions(excs, added.nexc, id, ch)
                   \/ /\ Len(r.sales) = id
                      /\ SubSeq(r.sales, 1, Len(sales)) = sales
                      /\ added.fault = ""
                      /\ r.sales[id].lines = added.lines

\* a fault left an import after one of two items had its line appended in
\* memory: the header of the first save is persisted without lines, next
\* to the channel exception of the first item
C13_Witness ==
    /\ last.op = "find_or_create_using_magento_data"
    /\ last.out = "Fault"
    /\ last.res = NoSale
    /\ Len(sales) >= 1
    /\ sales[Len(sales)].lines = << >>
    /\ sales[Len(sales)].magento_id # NULL
    /\ Cardinality(ExceptionsOf(excs, Len(sales))) = 1

\* the reported paid amount is a nonzero number
PaidNonzero(payment_data) ==
    Truthy(payment_data.amount_paid)
    /\ DecimalOf(payment_data.amount_paid) # 0

\* C14: after create_payment_using_magento_data the sale has at most one
\* payment; it has one only if a gateway is mapped to the payment method
\* and the paid amount is nonzero; and when the gateway is missing or the
\* paid amount is zero, the step ends without a payment and without error.
C14_PaymentOnlyIfPaid ==
    last.op = "create_payment_using_magento_data" =>
        /\ Len(payments) <= 1
        /\ Len(payments) = 1 =>
              /\ FindGateway(last.order_data.payment.method) # None
              /\ PaidNonzero(last.order_data.payment)
        /\ (FindGateway(last.order_data.payment.method) = None
            \/ ~PaidNonzero(last.order_data.payment))
              => payments = << >> /\ last.out = "ok"

\* the lines of a list that carry this remote line id
LinesOf(lines, item_id) ==
    {k \in DOMAIN lines : lines[k].magento_id = item_id}

\* C15: after add_lines_using_magento_data, however it ended, no line in
\* memory or persisted carries the id of an item that has a bundle-option
\* flag and a parent item id, whatever the item's other fields are; and
\* every line with a remote line id is the line of an item of the payload
\* without parent item id.
C15_BundleSuppression ==
    last.op = "add_lines_using_magento_data" =>
        \A lines \in {last.lines, sales[1].lines} :
            /\ \A i \in DOMAIN last.order_data.items :
                  (last.order_data.items[i].bundle_option
                   /\ last.order_data.items[i].parent_item_id # NULL)
                      => LinesOf(lines, last.order_data.items[i].item_id)
                            = {}
            /\ \A k \in DOMAIN lines :
                  lines[k].magento_id # NULL =>
                      \E i \in TopLevel(last.order_data.items) :
                          last.order_data.items[i].item_id
                              = lines[k].magento_id

\* the lines of a payload holding a top-level item and a bundle child whose
\* product is missing were added: one line, no channel exception
C15_Witness ==
    /\ last.op = "add_lines_using_magento_data"
    /\ last.out = "ok"
    /\ last.order_data.items = <<ItemTop, ItemChildGone>>
    /\ LinesOf(sales[1].lines, ItemTop.item_id) = {1}
    /\ excs = << >>

\* C16: for every payload without shipping address the mapped sale has
\* shipment method 'manual', whatever the workflow mapping gives for the
\* remote state, and its shipment address is its invoice address; with a
\* shipping address the shipment method is the mapped one and the shipment
\* address is that address. An imported sale keeps both fields as mapped.
C16_NoShipmentFallback ==
    /\ \A ch \in Channels, od \in Orders :
          LET sale == GetSaleUsingMagentoData(ch, od)
          IN  IF Truthy(od.shipping_address)
              THEN /\ sale.shipment_method
                         = GetTrytonAction(ch, od.state).shipment_method
                   /\ sale.shipment_address = od.shipping_address
              ELSE /\ sale.shipment_method = "manual"
                   /\ sale.shipment_address = sale.invoice_address
    /\ \A id \in DOMAIN sales :
          sales[id].magento_id # NULL =>
              \/ sales[id].shipment_method = "manual"
                    /\ sales[id].shipment_address = sales[id].invoice_address
              \/ sales[id].shipment_method # "manual"
                    /\ sales[id].shipment_address # None

\* two sales were imported in remote states mapped to shipment method
\* 'order': one without shipping address, which got 'manual' and its
\* invoice address as shipment address, and one with a shipping address
C16_Witness ==
    /\ last.op \in ImportOps
    /\ last.out = "ok"
    /\ \E i, j \in DOMAIN sales :
          /\ sales[i].shipment_method = "manual"
          /\ sales[i].invoice_method = "order"
          /\ sales[i].invoice_address # None
          /\ sales[i].shipment_address = sales[i].invoice_address
          /\ sales[j].shipment_method = "order"
          /\ sales[j].shipment_address # sales[j].invoice_address

\* the sales holding this increment id in this channel
WithIncrementId(ss, ch, increment_id) ==
    {i \in DOMAIN ss : ss[i].channel_identifier = increment_id
                       /\ ss[i].channel = ch}

\* what order_api.info may answer for an increment id
Fetchable(increment_id) ==
    {od \in Orders : od.increment_id = increment_id} \cup {Unreachable}

\* C17: find_or_create_using_magento_increment_id returns a sale holding
\* (increment id, current channel) when one exists, without any remote
\* call and without any change to sales, channel exceptions and payments;
\* when none exists its first call is order_api.info, made once.
C17_LookupBeforeFetch ==
    \A ch \in Channels, inc \in IncrementIds :
        \A fetched \in Fetchable(inc) :
            LET r == FindOrCreateUsingMagentoIncrementId(sales, excs,
                         payments, ch, inc, fetched)
            IN  IF WithIncrementId(sales, ch, inc) # {}
                THEN /\ r.res \in WithIncrementId(sales, ch, inc)
                     /\ r.out = "ok"
                     /\ r.calls = << >>
                     /\ r.sales = sales
                     /\ r.excs = excs
                     /\ r.payments = payments
                ELSE /\ r.calls # << >>
                     /\ Head(r.calls) = "order.info"
                     /\ "order.info" \notin Range(Tail(r.calls))

\* the import by increment id returned a sale found locally, while the
\* other channel holds a sale with the same increment id
C17_Witness ==
    /\ last.op = "find_or_create_using_magento_increment_id"
    /\ last.out = "ok"
    /\ last.calls = << >>
    /\ last.res # NoSale
    /\ \E j \in DOMAIN sales :
          /\ sales[j].channel # sales[last.res].channel
          /\ sales[j].channel_identifier
                = sales[last.res].channel_identifier

\* no two sales of one channel hold the same non-empty channel_identifier
UniqueIdentifier(ss) ==
    \A i, j \in DOMAIN ss :
        (i # j /\ ss[i].channel_identifier # None
         /\ ss[i].channel_identifier = ss[j].channel_identifier)
            => ss[i].channel # ss[j].channel

\* every imported sale holds the increment id the remote side gives its
\* order id
Numbered(ss) ==
    \A i \in DOMAIN ss :
        ss[i].magento_id # NULL =>
            \E o \in OrderIds :
                /\ IntOf(o) = ss[i].magento_id
                /\ IncrementIdOf(o) = ss[i].channel_identifier

\* C18 as stated: in every state reached by imports and copies, no two
\* sales of one channel hold the same non-empty channel_identifier.
C18_UniqueIdentifierPerChannel == UniqueIdentifier(sales)

\* C18 as amended: two sales of one channel with the same non-empty
\* channel_identifier are sales of two different remote order ids; and
\* from a store where the identifiers are unique and are the ones the
\* remote side gives the order ids, every import (by payload or by
\* increment id) of an order numbered the same way and every copy leads
\* to such a store again.
C18_UniqueWhileRemoteIs ==
    /\ \A i, j \in DOMAIN sales :
          (i # j /\ sales[i].channel_identifier # None
           /\ sales[i].channel_identifier = sales[j].channel_identifier
           /\ sales[i].channel = sales[j].channel)
              => /\ sales[i].magento_id # NULL
                 /\ sales[j].magento_id # NULL
                 /\ sales[i].magento_id # sales[j].magento_id
    /\ (UniqueIdentifier(sales) /\ Numbered(sales)) =>
          /\ \A ch \in Channels, od \in Orders :
                LET r == FindOrCreateUsingMagentoData(sales, excs, payments,
                                                      ch, od)
                IN  UniqueIdentifier(r.sales) /\ Numbered(r.sales)
          /\ \A ch \in Channels, od \in Orders :
                LET r == CreateUsingMagentoData(sales, excs, payments, ch, od)
                IN  UniqueIdentifier(r.sales) /\ Numbered(r.sales)
          /\ \A ch \in Channels, inc \in IncrementIds :
                \A fetched \in Fetchable(inc) :
                    LET r == FindOrCreateUsingMagentoIncrementId(sales,
                                 excs, payments, ch, inc, fetched)
                    IN  UniqueIdentifier(r.sales) /\ Numbered(r.sales)
          /\ \A ids \in CopyBatches, default \in CopyDefaults :
                LET r == Copy(sales, ids, default)
                IN  UniqueIdentifier(r) /\ Numbered(r)

\* two orders numbered by the remote side were imported into one channel
C18_Witness ==
    /\ last.op \in ImportOps
    /\ last.out = "ok"
    /\ last.res = 2
    /\ Len(sales) = 2
    /\ sales[1].channel = sales[2].channel
    /\ sales[1].channel_identifier # None
    /\ sales[2].channel_identifier # None
    /\ UniqueIdentifier(sales)
    /\ Numbered(sales)

\* the position in the payload of the k-th item without parent item id
NthTopLevel(items, k) ==
    CHOOSE i \in TopLevel(items) :
        Cardinality({j \in TopLevel(items) : j <= i}) = k

\* the number of synthetic lines the payload asks for
Synthetic(order_data) ==
    (IF Truthy(order_data.shipping_method) THEN 1 ELSE 0)
    + (IF DecimalOf(order_data.discount_amount) # 0 THEN 1 ELSE 0)

\* C19: when add_lines_using_magento_data returns, the sale's lines are:
\* one line per item that is not suppressed (an item without parent item
\* id), in payload order; then the shipping line, present exactly when the
\* payload names a shipping method; then the discount line, present
\* exactly when the discount amount is nonzero, always last. When a fault
\* leaves the method the lines in memory are item lines only.
C19_LineOrder ==
    last.op = "add_lines_using_magento_data" =>
        LET od == last.order_data
            n == Cardinality(TopLevel(od.items))
            lines == last.lines
        IN  IF last.out = "ok"
            THEN /\ sales[1].lines = lines
                 /\ Len(lines) = n + Synthetic(od)
                 /\ \A k \in 1..n :
                       /\ lines[k].kind = "item"
                       /\ lines[k].magento_id
                             = od.items[NthTopLevel(od.items, k)].item_id
                 /\ \A k \in (n + 1)..Len(lines) :
                       /\ lines[k].kind \in {"shipping", "discount"}
                       /\ lines[k].magento_id = NULL
                 /\ Truthy(od.shipping_method)
                       => lines[n + 1].kind = "shipping"
                 /\ DecimalOf(od.discount_amount) # 0
                       => lines[Len(lines)].kind = "discount"
                 /\ Cardinality({k \in DOMAIN lines :
                                    lines[k].kind = "shipping"}) <= 1
                 /\ Cardinality({k \in DOMAIN lines :
                                    lines[k].kind = "discount"}) <= 1
            ELSE /\ sales[1].lines = << >>
                 /\ \A k \in DOMAIN lines : lines[k].kind = "item"

\* the lines of a payload with two different top-level items, a shipping
\* method and a discount were added: four lines, the synthetic ones last
C19_Witness ==
    /\ last.op = "add_lines_using_magento_data"
    /\ last.out = "ok"
    /\ Len(last.order_data.items) = 2
    /\ TopLevel(last.order_data.items) = {1, 2}
    /\ last.order_data.items[1] # last.order_data.items[2]
    /\ Len(sales[1].lines) = 4
    /\ sales[1].lines[3].kind = "shipping"
    /\ sales[1].lines[4].kind = "discount"

\* the remote status update_order_status_from_magento acts on
StatusSeen(order_data, fetched) ==
    IF order_data = None THEN fetched ELSE order_data

WithoutMagentoId(ss, id) == [ss EXCEPT ![id].magento_id = NULL]

\* the calls that push a status to the remote order
PushCalls == {"order.cancel", "order.addcomment"}

====
